---- MODULE Spec2Model ----
(***************************************************************************)
(* The asynchronous bulk-import pipeline of the product importer:          *)
(* backend/app/main.py (import_products, import_progress and the product   *)
(* endpoints) and backend/app/tasks.py (process_csv_import_sync,           *)
(* trigger_webhooks_sync), over the tables of backend/app/models.py.       *)
(*                                                                         *)
(* The database is one committed state (jobs, products) plus, per worker,  *)
(* the ORM session's uncommitted work.  A step of a worker is the code     *)
(* between two database interactions, so workers and API calls interleave  *)
(* exactly where the code reads or commits.                                *)
(*                                                                         *)
(* What may fail: every db.query(...).first() and db.commit() of the       *)
(* worker may raise, and so may os.remove.  A commit also raises when it   *)
(* would store a sku already stored (Product.sku is unique).  Reading an   *)
(* attribute of a loaded object, trigger_webhooks_sync (which catches      *)
(* what it raises) and logging do not raise.  The queries and commits of   *)
(* the endpoints of main.py and the query of trigger_webhooks_sync are     *)
(* taken to succeed, and a query reads what is committed when it runs.     *)
(***************************************************************************)
EXTENDS Integers, Sequences, FiniteSets, TLC

(***************************************************************************)
(* Bounds of the model.                                                    *)
(***************************************************************************)
\* longest enumerated small file, in rows
MaxRows == 2
\* failures the environment may inject: a query or a commit of the database
\* that raises, a removal of the staged file that raises
MaxFaults == 1
\* create_product calls the environment may make
MaxApiCalls == 1
\* calls of the product endpoints in a sequence of calls that do not overlap
MaxCrudCalls == 4
\* calls of create_product and update_product that prepare the catalog of an
\* import
MaxUpsertCalls == 3
\* rows of the longest file whose job row a progress request reads
MaxTotalRows == 5000

(***************************************************************************)
(* Program constants.                                                      *)
(***************************************************************************)
chunk_size == 100
CommitInterval == 50
FailedShown == 10
PartialShown == 5
MaxPolls == 600

JobIds == {"J1", "J2"}

(***************************************************************************)
(* Cell values of the parsed DataFrame.  NaN is the float pandas puts in   *)
(* an empty cell; NoneVal is what row.get returns for an absent column.    *)
(***************************************************************************)
NaN == "<NaN>"
NoneVal == "<None>"

\* str(v)
Str(v) == IF v = NaN THEN "nan" ELSE IF v = NoneVal THEN "None" ELSE v

\* str.strip() on the strings of the model
Strip(s) ==
  CASE s = " DUP-001 " -> "DUP-001"
    [] s = " dup-001"  -> "dup-001"
    [] s = "  "        -> ""
    [] s = " nan "     -> "nan"
    [] s = " Second "  -> "Second"
    [] OTHER           -> s

\* str.lower() on the strings of the model
Lower(s) ==
  CASE s = "DUP-001" -> "dup-001"
    [] s = "Dup-001" -> "dup-001"
    [] s = "B-2"     -> "b-2"
    [] s = "NaN"     -> "nan"
    [] s = "None"    -> "none"
    [] s = "NONE"    -> "none"
    [] s = "First"   -> "first"
    [] s = "Second"  -> "second"
    [] s = "Third"   -> "third"
    [] OTHER         -> s

\* pd.notna(v)
NotNa(v) == v # NaN /\ v # NoneVal

IsNullToken_EmptyOnly(s) == s = ""

IsNullToken_CaseSensitive(s) == s \in {"", "nan", "none"}

\* "not s or s.lower() in ['nan', 'none', '']"
IsNullToken(s) == s = "" \/ Lower(s) \in {"nan", "none", ""}

(***************************************************************************)
(* Uploaded files.  A file is what pd.read_csv makes of it: a defect       *)
(* (decode/parse), or the column names and n rows of the DataFrame.  The   *)
(* rows are written by name and repeat the file's pattern: row k is        *)
(* pattern[((k - 1) % Len(pattern)) + 1].                                  *)
(***************************************************************************)
AllCols == <<"sku", "name", "description">>

Row(s, n, d) == [sku |-> s, name |-> n, description |-> d]

RowOf(r) ==
  CASE r = "First"  -> Row("DUP-001", "First", "Description 1")
    [] r = "Second" -> Row(" dup-001", " Second ", NaN)
    [] r = "Other"  -> Row("B-2", "Third", NoneVal)
    [] r = "NoSku"  -> Row(NaN, "First", "Description 1")
    [] r = "NoName" -> Row("DUP-001", "  ", NaN)
    [] r = "PaddedNan" -> Row(" nan ", "First", "Description 1")
    [] r = "UpperNone" -> Row("NONE", "First", "Description 1")
    [] r = "NoneName"  -> Row("B-2", "None", NaN)
    [] r = "NoBoth"    -> Row(NaN, NaN, NaN)

ValidRows == {"First", "Second"}
RowKinds == {"First", "Second", "Other", "NoSku", "NoName"}

\* rows whose sku or name is a null token in other letter case or padded
EdgeRows == {"PaddedNan", "UpperNone", "NoneName", "NoBoth"}

SeqsUpTo(S, n) == UNION {[1..k -> S] : k \in 0..n}

File(defect, cols, pattern, n) ==
  [defect |-> defect, columns |-> cols, pattern |-> pattern, n |-> n]

\* len(df) and df.iloc[k - 1]
NumRows(file) == file.n
RowAt(file, k) == RowOf(file.pattern[((k - 1) % Len(file.pattern)) + 1])

\* schema-valid files of at most MaxRows rows
SmallFiles == {File("none", AllCols, rs, Len(rs)) : rs \in SeqsUpTo(RowKinds, MaxRows)}

\* files of one or two valid rows of one case-folded sku
ValidFiles ==
  {File("none", AllCols, rs, Len(rs)) :
     rs \in [1..1 -> ValidRows] \cup [1..2 -> ValidRows]}

\* files that never reach the row loop
BrokenFiles ==
  { File("decode", <<>>, <<>>, 0),
    File("parse", <<>>, <<>>, 0),
    File("none", <<"sku", "description">>, <<"First">>, 1),
    File("none", <<"name">>, <<"First">>, 1),
    File("none", <<"description">>, <<>>, 0) }

\* files that fill one chunk exactly, and one row more
BigFiles ==
  {File("none", AllCols, <<"First", "Second">>, n) : n \in {chunk_size, chunk_size + 1}}

\* files of one row and of two rows of every kind, with and without the
\* description column
RowFiles ==
  {File("none", cols, rs, Len(rs)) :
     rs \in [1..1 -> RowKinds \cup EdgeRows] \cup [1..2 -> RowKinds \cup EdgeRows],
     cols \in {AllCols, <<"sku", "name">>}}

\* files whose rows meet the records of a prepared catalog
UpsertFiles ==
  {File("none", AllCols, rs, Len(rs)) :
     rs \in {<<"First">>, <<"Second">>, <<"Other">>, <<"First", "Second">>,
             <<"First", "Other">>}}

\* row.get(col)
Get(file, row, col) ==
  IF \E k \in DOMAIN file.columns : file.columns[k] = col THEN row[col] ELSE NoneVal

(***************************************************************************)
(* Records of the tables.                                                  *)
(***************************************************************************)
\* A timestamp is named by the line whose datetime.utcnow() made it.
NoTime == <<"NULL", 0>>
UtcNow(line) == <<"utcnow", line>>
NoMessage == [kind |-> "NULL"]

\* ImportJob(id=job_id, status="pending") with the column defaults
NewJob ==
  [status |-> "pending", total_rows |-> 0, processed_rows |-> 0,
   error_message |-> NoMessage, completed_at |-> NoTime]

Product(sku, name, description, active) ==
  [sku |-> sku, name |-> name, description |-> description,
   active |-> active, updated_at |-> NoTime]

\* the row a product_id of no product names
NoProduct == Product("", "", "", FALSE)

Terminal == {"completed", "completed_with_errors", "failed"}

VARIABLES
  jobs,        \* committed import_jobs table: job id -> record
  products,    \* committed products table: a set of records
  staged,      \* job id -> whether temp_uploads/<job_id>.csv exists
  fileOf,      \* job id -> the uploaded file
  worker,      \* job id -> locals of process_csv_import_sync
  session,     \* job id -> the worker's ORM session: dirty job, pending rows
  dispatched,  \* job id -> payloads handed to trigger_webhooks
  api,         \* the create_product request in flight, if any; in SpecUpload
               \* the import_products request between its steps
  faults,      \* failures of the environment injected so far
  env,         \* what the environment may still do: the files an upload may
               \* carry, the uploads and the create_product calls left
  after,       \* job id -> the jobs whose worker had returned when this job
               \* was uploaded (history)
  webhooks,    \* committed webhooks table: its rows, in the order of a query
  delivery,    \* job id -> the run of trigger_webhooks for the job's event
  sub,         \* the import_progress request: its generator and its session
  resp         \* the last request to import_products and the last to the
               \* product endpoints, each with its response

vars == <<jobs, products, staged, fileOf, worker, session, dispatched,
          api, faults, env, after, webhooks, delivery, sub, resp>>

\* what no step of process_csv_import_sync but the dispatch touches
beside == <<webhooks, delivery, sub, resp>>


Min(a, b) == IF a <= b THEN a ELSE b
Max(a, b) == IF a >= b THEN a ELSE b

(***************************************************************************)
(* The ORM session of a worker: its copy of the job row, with the          *)
(* attribute writes not yet committed, and the Product rows added or       *)
(* changed since the last commit (isNew: added by db.add).                 *)
(***************************************************************************)
NewSession == [job |-> NewJob, pending |-> {}]

Pending(p, isNew) ==
  [sku |-> p.sku, name |-> p.name, description |-> p.description,
   active |-> p.active, updated_at |-> p.updated_at, isNew |-> isNew]

Stored(q) ==
  [sku |-> q.sku, name |-> q.name, description |-> q.description,
   active |-> q.active, updated_at |-> q.updated_at]

\* SessionLocal (app/database.py) flushes pending work before a query, so
\* that a query sees the rows this session added and has not committed
autoflush == TRUE

\* the rows of products a query of this session sees: the committed rows,
\* those this session changed as it changed them, and the rows it added
View(s) ==
  {p \in products : ~\E q \in s.pending : ~q.isNew /\ q.sku = p.sku}
    \cup {Stored(q) : q \in {x \in s.pending : ~x.isNew \/ autoflush}}

\* Product.sku is unique=True: an INSERT of a sku already stored fails
UniqueOK(s) == \A q \in s.pending : q.isNew => ~\E p \in products : p.sku = q.sku

\* what a successful commit leaves in the products table
Flushed(s) ==
  {p \in products : ~\E q \in s.pending : q.sku = p.sku}
    \cup {Stored(q) : q \in s.pending}

\* The session after db.rollback(), and after a db.commit() that raised
\* (the Session rolls its transaction back and expires its objects):
\* uncommitted attribute writes and added rows are dropped, the job row is
\* as committed
RolledBack(j) == [job |-> jobs[j], pending |-> {}]

\* db.commit() of session s of worker j: wOk are the worker's locals after a
\* commit that succeeded, sFail and wFail the session and the locals after
\* one that raised (the unique constraint, or a failure of the database).
\* A commit that follows one that raised may succeed or raise.
Commit(j, s, wOk, sFail, wFail) ==
  \/ /\ UniqueOK(s)
     /\ jobs' = [jobs EXCEPT ![j] = s.job]
     /\ products' = Flushed(s)
     /\ session' = [session EXCEPT ![j] = [s EXCEPT !.pending = {}]]
     /\ worker' = [worker EXCEPT ![j] = wOk]
     /\ UNCHANGED faults
  \/ /\ ~UniqueOK(s)
     /\ session' = [session EXCEPT ![j] = sFail]
     /\ worker' = [worker EXCEPT ![j] = wFail]
     /\ UNCHANGED <<jobs, products, faults>>
  \/ /\ faults < MaxFaults
     /\ faults' = faults + 1
     /\ session' = [session EXCEPT ![j] = sFail]
     /\ worker' = [worker EXCEPT ![j] = wFail]
     /\ UNCHANGED <<jobs, products>>

(***************************************************************************)
(* Locals of process_csv_import_sync.                                      *)
(***************************************************************************)
IdleWorker ==
  [pc |-> "idle", job |-> FALSE, exc |-> "none", total_rows |-> 0,
   i |-> 0, idx |-> 0, processed_count |-> 0, created_count |-> 0,
   updated_count |-> 0, error_count |-> 0, errors |-> <<>>,
   cleanup_err |-> FALSE]

\* Three scenarios: two imports, concurrent or successive, of rows of one
\* case-folded sku; one import of any small file beside create_product
\* calls; one import of a file of a chunk or more.
\* broker: whether trigger_webhooks.delay reaches its queue.
Scenario(name, uploads, calls, broker) ==
  [scenario |-> name, uploads |-> uploads, calls |-> calls, made |-> 0,
   broker |-> broker]

Scenarios ==
  { Scenario("pair", 2, 0, FALSE),
    Scenario("solo", 1, MaxApiCalls, FALSE),
    Scenario("chunks", 1, 0, FALSE) }

\* the file of one valid row
OneRow == File("none", AllCols, <<"First">>, 1)

FilesOf(scenario) ==
  CASE scenario = "pair"   -> ValidFiles
    [] scenario = "solo"   -> SmallFiles \cup BrokenFiles
    [] scenario = "chunks" -> BigFiles
    [] scenario = "watch"  -> {OneRow}
    [] scenario = "hooks"  -> {OneRow, File("none", AllCols, <<"NoSku">>, 1)}
    [] scenario = "crud"   -> {}
    [] scenario = "rows"   -> RowFiles
    [] scenario = "upsert" -> UpsertFiles
    [] scenario = "upload" -> {OneRow}

\* no event was handed to trigger_webhooks
NoDelivery == [state |-> "none", posts |-> <<>>]

\* no import_progress request was made
IdleSub ==
  [pc |-> "idle", id |-> "", n |-> 0, reads |-> 0, emitted |-> 0,
   last |-> [status |-> "none"], cache |-> [loaded |-> FALSE],
   txn |-> [loaded |-> FALSE]]

NoResp ==
  [import |-> [filename |-> "", status |-> 0, job_id |-> "none"],
   product |-> [op |-> "none", target |-> NoProduct, sku |-> "", status |-> 0]]

\* empty tables, no request made, no worker started
Boot ==
  /\ jobs = <<>>
  /\ products = {}
  /\ staged = [j \in JobIds |-> FALSE]
  /\ fileOf = [j \in JobIds |-> File("none", <<>>, <<>>, 0)]
  /\ worker = [j \in JobIds |-> IdleWorker]
  /\ session = [j \in JobIds |-> NewSession]
  /\ dispatched = [j \in JobIds |-> <<>>]
  /\ api = [pc |-> "idle"]
  /\ faults = 0
  /\ after = [j \in JobIds |-> {}]
  /\ delivery = [j \in JobIds |-> NoDelivery]
  /\ sub = IdleSub
  /\ resp = NoResp

Init ==
  /\ Boot
  /\ env \in Scenarios
  /\ webhooks = <<>>

(***************************************************************************)
(* import_products: the job row is committed as pending, the upload is     *)
(* written to its staging path, and the worker thread is started.          *)
(***************************************************************************)
FileNames == {"products.csv", "products.CSV", "notes.txt"}

EndsWithCsv_AnyCase(filename) == filename \in {"products.csv", "products.CSV"}

\* file.filename.endswith('.csv'), on the names of the model
EndsWithCsv(filename) == filename = "products.csv"

job_id_Reused == "J1"

\* line 70, str(uuid.uuid4()): an identifier no job has
job_id == IF "J1" \notin DOMAIN jobs THEN "J1" ELSE "J2"

\* lines 70-100: the upload is accepted
Upload(filename, f) ==
  /\ f \in FilesOf(env.scenario)
  /\ LET j == job_id
     IN /\ jobs' = [x \in DOMAIN jobs \cup {j} |-> IF x = j THEN NewJob ELSE jobs[x]]
        /\ staged' = [staged EXCEPT ![j] = TRUE]
        /\ fileOf' = [fileOf EXCEPT ![j] = f]
        /\ worker' = [worker EXCEPT ![j] = [IdleWorker EXCEPT !.pc = "begin"]]
        /\ after' = [after EXCEPT ![j] = {k \in JobIds : worker[k].pc = "done"}]
        /\ resp' = [resp EXCEPT !.import =
                      [filename |-> filename, status |-> 200, job_id |-> j]]
  /\ UNCHANGED <<products, session, dispatched, api, faults, webhooks,
                 delivery, sub>>

import_products(filename, f) ==
  /\ env.uploads > 0
  /\ env' = [env EXCEPT !.uploads = @ - 1]
  /\ IF ~EndsWithCsv(filename)
       THEN \* raise HTTPException(400, ...)
            /\ resp' = [resp EXCEPT !.import =
                          [filename |-> filename, status |-> 400, job_id |-> "none"]]
            /\ UNCHANGED <<jobs, products, staged, fileOf, worker, session,
                           dispatched, api, faults, after, webhooks, delivery, sub>>
       ELSE Upload(filename, f)

(***************************************************************************)
(* import_products step by step, for what another thread can see between   *)
(* its steps and for a write of the staged file that raises (os.makedirs,  *)
(* open, file.read or f.write; nothing in import_products catches it).     *)
(* api holds the request between its steps.  Upload above is the three     *)
(* steps of a request whose write does not raise, taken as one.            *)
(***************************************************************************)
\* lines 66-73: the name is checked, the job row is added and committed
CommitPending(filename, f) ==
  /\ api.pc = "idle"
  /\ env.uploads > 0
  /\ f \in FilesOf(env.scenario)
  /\ env' = [env EXCEPT !.uploads = @ - 1]
  /\ IF ~EndsWithCsv(filename)
       THEN /\ resp' = [resp EXCEPT !.import =
                          [filename |-> filename, status |-> 400, job_id |-> "none"]]
            /\ UNCHANGED <<jobs, api>>
       ELSE LET j == job_id
            IN /\ jobs' = [x \in DOMAIN jobs \cup {j} |->
                             IF x = j THEN NewJob ELSE jobs[x]]
               /\ api' = [pc |-> "staging", job_id |-> j, file |-> f]
               /\ resp' = [resp EXCEPT !.import =
                             [filename |-> filename, status |-> 0, job_id |-> j]]
  /\ UNCHANGED <<products, staged, fileOf, worker, session, dispatched, faults,
                 after, webhooks, delivery, sub>>

\* lines 76-85: the upload is written to temp_uploads/<job_id>.csv, or the
\* write raises and the request ends with status 500; the file is then
\* absent or partly written (left)
StageUpload ==
  /\ api.pc = "staging"
  /\ LET j == api.job_id
     IN \/ /\ staged' = [staged EXCEPT ![j] = TRUE]
           /\ fileOf' = [fileOf EXCEPT ![j] = api.file]
           /\ api' = [api EXCEPT !.pc = "starting"]
           /\ UNCHANGED <<faults, resp>>
        \/ /\ faults < MaxFaults
           /\ faults' = faults + 1
           /\ \E left \in BOOLEAN : staged' = [staged EXCEPT ![j] = left]
           /\ api' = [pc |-> "idle"]
           /\ resp' = [resp EXCEPT !.import.status = 500]
           /\ UNCHANGED fileOf
  /\ UNCHANGED <<jobs, products, worker, session, dispatched, env, after,
                 webhooks, delivery, sub>>

\* lines 93-100: the worker thread is started, the response is returned
StartWorker ==
  /\ api.pc = "starting"
  /\ LET j == api.job_id
     IN /\ worker' = [worker EXCEPT ![j] = [IdleWorker EXCEPT !.pc = "begin"]]
        /\ after' = [after EXCEPT ![j] = {k \in JobIds : worker[k].pc = "done"}]
  /\ api' = [pc |-> "idle"]
  /\ resp' = [resp EXCEPT !.import.status = 200]
  /\ UNCHANGED <<jobs, products, staged, fileOf, session, dispatched, faults,
                 env, webhooks, delivery, sub>>

\* an exception that reaches "except Exception as e" (line 290); what names
\* the call that raised and its line
Raised(w, what) == [w EXCEPT !.pc = "fatal", !.exc = what]

(***************************************************************************)
(* Lines 48-55: load the job, mark it parsing.                             *)
(***************************************************************************)
ParsingJob_Importing(job) == [job EXCEPT !.status = "importing"]

\* line 54
ParsingJob(job) == [job EXCEPT !.status = "parsing"]

Begin(j) ==
  /\ worker[j].pc = "begin"
  /\ UNCHANGED <<staged, fileOf, dispatched, api, env, after, beside>>
  /\ \/ \* the query of line 48 raises: job is still None
        /\ faults < MaxFaults
        /\ faults' = faults + 1
        /\ worker' = [worker EXCEPT ![j] = Raised(@, "query:48")]
        /\ UNCHANGED <<jobs, products, session>>
     \/ \* "if not job: return"
        /\ j \notin DOMAIN jobs
        /\ worker' = [worker EXCEPT ![j].pc = "done"]
        /\ UNCHANGED <<jobs, products, session, faults>>
     \/ /\ j \in DOMAIN jobs
        /\ LET s == [job |-> ParsingJob(jobs[j]), pending |-> {}]
               w == [worker[j] EXCEPT !.job = TRUE]
           IN Commit(j, s, [w EXCEPT !.pc = "open"], RolledBack(j), Raised(w, "commit:55"))


(***************************************************************************)
(* Lines 58-110: the staged file is checked, read and its header           *)
(* validated; the job fails at once or is marked importing.                *)
(***************************************************************************)
HasCol(file, col) == \E k \in DOMAIN file.columns : file.columns[k] = col

missing_cols_SkuOnly(file) ==
  SelectSeq(<<"sku">>, LAMBDA col : ~\E k \in DOMAIN file.columns : file.columns[k] = col)

\* [col for col in required_cols if col not in df.columns]
missing_cols(file) ==
  SelectSeq(<<"sku", "name">>, LAMBDA col : ~HasCol(file, col))

\* the job row as lines 60-62, 74-76, 81-83 and 99-101 leave it
FailedJob_NoStamp(job, message, line) ==
  [job EXCEPT !.status = "failed", !.error_message = message]

FailedJob(job, message, line) ==
  [job EXCEPT !.status = "failed", !.error_message = message,
              !.completed_at = UtcNow(line)]

\* total_rows written as soon as the file is read, before the header check
Opened_TotalFirst(j) ==
  LET f == fileOf[j]
      job == session[j].job
  IN IF ~staged[j]
       THEN [ok |-> FALSE, job |-> FailedJob(job, [kind |-> "file_not_found"], 62)]
     ELSE IF f.defect = "decode"
       THEN [ok |-> FALSE, job |-> FailedJob(job, [kind |-> "encoding"], 76)]
     ELSE IF f.defect = "parse"
       THEN [ok |-> FALSE, job |-> FailedJob(job, [kind |-> "parse"], 83)]
     ELSE IF missing_cols(f) # <<>>
       THEN [ok |-> FALSE,
             job |-> FailedJob([job EXCEPT !.total_rows = NumRows(f)],
                               [kind |-> "missing_columns",
                                missing |-> missing_cols(f),
                                found |-> f.columns], 101)]
     ELSE [ok |-> TRUE,
           job |-> [job EXCEPT !.total_rows = NumRows(f), !.status = "importing"]]

\* the job row and the total the code reaches before its commit
Opened(j) ==
  LET f == fileOf[j]
      job == session[j].job
  IN IF ~staged[j]
       THEN [ok |-> FALSE, job |-> FailedJob(job, [kind |-> "file_not_found"], 62)]
     ELSE IF f.defect = "decode"
       THEN [ok |-> FALSE, job |-> FailedJob(job, [kind |-> "encoding"], 76)]
     ELSE IF f.defect = "parse"
       THEN [ok |-> FALSE, job |-> FailedJob(job, [kind |-> "parse"], 83)]
     ELSE IF missing_cols(f) # <<>>
       THEN [ok |-> FALSE,
             job |-> FailedJob(job, [kind |-> "missing_columns",
                                     missing |-> missing_cols(f),
                                     found |-> f.columns], 101)]
     ELSE [ok |-> TRUE,
           job |-> [job EXCEPT !.total_rows = NumRows(f), !.status = "importing"]]

Open(j) ==
  /\ worker[j].pc = "open"
  /\ UNCHANGED <<staged, fileOf, dispatched, api, env, after, beside>>
  /\ LET o == Opened(j)
         s == [session[j] EXCEPT !.job = o.job]
         w == worker[j]
         n == NumRows(fileOf[j])
         wOk == IF ~o.ok THEN [w EXCEPT !.pc = "done"]
                ELSE IF n = 0 THEN [w EXCEPT !.pc = "final_commit", !.total_rows = n]
                ELSE [w EXCEPT !.pc = "row", !.total_rows = n]
     IN Commit(j, s, wOk, RolledBack(j), Raised(w, "commit:63-110"))

(***************************************************************************)
(* Lines 125-192: one row of a chunk.                                      *)
(***************************************************************************)
\* "break" where the code has "continue"
RowError_Break(w, kind) ==
  [w EXCEPT !.errors = Append(@, kind), !.error_count = @ + 1,
            !.idx = Min(w.i + chunk_size, w.total_rows) - 1]

\* errors.append(error_msg); error_count += 1
RowError(w, kind) ==
  [w EXCEPT !.errors = Append(@, kind), !.error_count = @ + 1]

\* the loops' next position after row idx: the next row, or the chunk's end
NextRow(w) ==
  [w EXCEPT !.idx = @ + 1,
            !.pc = IF w.idx + 1 = Min(w.i + chunk_size, w.total_rows)
                     THEN "chunk_commit" ELSE "row"]

\* after processed_count += 1: the commit of line 177 is due or not
AfterUpsert(w) ==
  LET w1 == [w EXCEPT !.processed_count = @ + 1]
  IN IF w1.processed_count % CommitInterval = 0
       THEN [w1 EXCEPT !.pc = "commit50"] ELSE NextRow(w1)

Updated_KeepsName(s, existing, name, description) ==
  [s EXCEPT !.pending =
     {q \in @ : q.sku # existing.sku}
       \cup {Pending([existing EXCEPT !.description = description,
                                      !.updated_at = UtcNow(159)],
                     \E q \in s.pending : q.sku = existing.sku /\ q.isNew)}]

Updated_Reactivates(s, existing, name, description) ==
  [s EXCEPT !.pending =
     {q \in @ : q.sku # existing.sku}
       \cup {Pending([existing EXCEPT !.name = name, !.description = description,
                                      !.active = TRUE, !.updated_at = UtcNow(159)],
                     \E q \in s.pending : q.sku = existing.sku /\ q.isNew)}]

\* lines 155-171 on the row found by the query (existing) or on none
Updated(s, existing, name, description) ==
  [s EXCEPT !.pending =
     {q \in @ : q.sku # existing.sku}
       \cup {Pending([existing EXCEPT !.name = name, !.description = description,
                                      !.updated_at = UtcNow(159)],
                     \E q \in s.pending : q.sku = existing.sku /\ q.isNew)}]

Created(s, sku, name, description) ==
  [s EXCEPT !.pending = @ \cup {Pending(Product(sku, name, description, TRUE), TRUE)}]

Matches_CaseSensitive(s, sku) == {p \in View(s) : p.sku = sku}

\* lines 151-153: the rows whose sku equals the row's, ignoring case
Matches(s, sku) == {p \in View(s) : Lower(p.sku) = Lower(sku)}

RowStep(j) ==
  /\ worker[j].pc = "row"
  /\ UNCHANGED <<jobs, products, staged, fileOf, dispatched, api, env, after,
                 beside>>
  /\ LET w == worker[j]
         f == fileOf[j]
         row == RowAt(f, w.idx + 1)
         sku == Strip(Str(Get(f, row, "sku")))
         name == Strip(Str(Get(f, row, "name")))
         description == IF NotNa(Get(f, row, "description"))
                          THEN Strip(Str(Get(f, row, "description"))) ELSE ""
         matches == Matches(session[j], sku)
     IN IF IsNullToken(sku)
          THEN /\ worker' = [worker EXCEPT ![j] = NextRow(RowError(w, "sku"))]
               /\ UNCHANGED <<session, faults>>
        ELSE IF IsNullToken(name)
          THEN /\ worker' = [worker EXCEPT ![j] = NextRow(RowError(w, "name"))]
               /\ UNCHANGED <<session, faults>>
        ELSE \/ \* the query of line 151 raises: "except Exception as row_error"
                /\ faults < MaxFaults
                /\ faults' = faults + 1
                /\ worker' = [worker EXCEPT ![j] = NextRow(RowError(w, "exception"))]
                /\ UNCHANGED session
             \/ \* .first() of the matching rows
                /\ \E existing \in matches :
                     /\ session' = [session EXCEPT ![j] =
                                      Updated(@, existing, name, description)]
                     /\ worker' = [worker EXCEPT ![j] =
                                     AfterUpsert([w EXCEPT !.updated_count = @ + 1])]
                /\ UNCHANGED faults
             \/ /\ matches = {}
                /\ session' = [session EXCEPT ![j] = Created(@, sku, name, description)]
                /\ worker' = [worker EXCEPT ![j] =
                                AfterUpsert([w EXCEPT !.created_count = @ + 1])]
                /\ UNCHANGED faults

\* lines 177-184: the commit taken every CommitInterval applied rows
Commit50(j) ==
  /\ worker[j].pc = "commit50"
  /\ UNCHANGED <<staged, fileOf, dispatched, api, env, after, beside>>
  /\ LET w == worker[j]
     IN Commit(j, session[j], NextRow(w),
               RolledBack(j), NextRow(RowError(w, "commit")))

\* lines 195-202: the commit at the end of a chunk
ChunkCommitFailed(w) ==
  [w EXCEPT !.errors = Append(@, "chunk_commit"),
            !.error_count = @ + (chunk_size - w.processed_count)]

ChunkCommit(j) ==
  /\ worker[j].pc = "chunk_commit"
  /\ UNCHANGED <<staged, fileOf, dispatched, api, env, after, beside>>
  /\ LET w == worker[j]
     IN Commit(j, session[j], [w EXCEPT !.pc = "progress"],
               RolledBack(j), [ChunkCommitFailed(w) EXCEPT !.pc = "progress"])

ProcessedRows_NoMin(w) == w.i + chunk_size

ProcessedRows_Applied(w) == w.processed_count

ProcessedRows_ChunkStart(w) == w.i

\* line 206
ProcessedRows(w) == Min(w.i + chunk_size, w.total_rows)

\* lines 206-207, and the step of "for i in range(0, total_rows, chunk_size)"
Progress(j) ==
  /\ worker[j].pc = "progress"
  /\ UNCHANGED <<staged, fileOf, dispatched, api, env, after, beside>>
  /\ LET w == worker[j]
         s == [session[j] EXCEPT !.job.processed_rows = ProcessedRows(w)]
         wOk == IF w.i + chunk_size < w.total_rows
                  THEN [w EXCEPT !.i = @ + chunk_size, !.pc = "row"]
                  ELSE [w EXCEPT !.pc = "final_commit"]
     IN Commit(j, s, wOk, RolledBack(j), Raised(w, "commit:207"))

\* lines 214-217: a failure is logged
FinalCommit(j) ==
  /\ worker[j].pc = "final_commit"
  /\ UNCHANGED <<staged, fileOf, dispatched, api, env, after, beside>>
  /\ LET w == [worker[j] EXCEPT !.pc = "classify"]
     IN Commit(j, session[j], w, RolledBack(j), w)


(***************************************************************************)
(* Lines 220-258: the terminal status, its summary and completed_at.       *)
(***************************************************************************)
TerminalStatus(w) ==
  IF w.error_count > 0 /\ w.processed_count = 0 THEN "failed"
  ELSE IF w.error_count > 0 THEN "completed_with_errors"
  ELSE "completed"

\* the text of error_summary, by its parts
Summary(w, kind, shown) ==
  [kind |-> kind, total_errors |-> w.error_count,
   processed |-> w.processed_count, created |-> w.created_count,
   updated |-> w.updated_count,
   lines |-> SubSeq(w.errors, 1, Min(shown, Len(w.errors))),
   more |-> Max(Len(w.errors) - shown, 0)]

TerminalMessage_Empty(w) == NoMessage

\* lines 223-231, 237-248 and 254
TerminalMessage(w) ==
  IF TerminalStatus(w) = "failed" THEN Summary(w, "import_failed", FailedShown)
  ELSE IF TerminalStatus(w) = "completed_with_errors"
    THEN Summary(w, "completed_with_errors", PartialShown)
  ELSE NoMessage

Classify(j) ==
  /\ worker[j].pc = "classify"
  /\ UNCHANGED <<staged, fileOf, dispatched, api, env, after, beside>>
  /\ LET w == worker[j]
         s == [session[j] EXCEPT !.job.status = TerminalStatus(w),
                                 !.job.error_message = TerminalMessage(w),
                                 !.job.completed_at = UtcNow(257)]
     IN Commit(j, s, [w EXCEPT !.pc = "webhook"], RolledBack(j), Raised(w, "commit:258"))

(***************************************************************************)
(* Lines 261-278: the product.imported event is handed to                  *)
(* trigger_webhooks (or, when that raises, to trigger_webhooks_sync).      *)
(***************************************************************************)
Payload(j, w) ==
  [job_id |-> j, count |-> w.processed_count, created |-> w.created_count,
   updated |-> w.updated_count, errors |-> w.error_count]

ShouldDispatch_Always(status) == TRUE

\* line 261
ShouldDispatch(status) == status \in {"completed", "completed_with_errors"}

\* what client.post does: it returns (whatever the response), raises, or
\* times out after 10 seconds
Outcomes == {"returned", "raised", "timeout"}

Listener(url, event_type, enabled) ==
  [url |-> url, event_type |-> event_type, enabled |-> enabled]

\* a webhooks table: two enabled listeners of the event, a disabled one, and
\* a listener of another event
Listeners ==
  << Listener("http://a", "product.imported", TRUE),
     Listener("http://b", "product.imported", FALSE),
     Listener("http://c", "product.deleted", TRUE),
     Listener("http://d", "product.imported", TRUE) >>

\* lines 320-323
EnabledFor(event_type) ==
  SelectSeq(webhooks, LAMBDA h : h.event_type = event_type /\ h.enabled)

RECURSIVE Posts_StopAtFailure(_, _)
Posts_StopAtFailure(hs, outcome) ==
  IF hs = <<>> THEN <<>>
  ELSE IF outcome[Head(hs).url] # "returned"
    THEN <<[url |-> Head(hs).url, result |-> outcome[Head(hs).url]]>>
  ELSE <<[url |-> Head(hs).url, result |-> outcome[Head(hs).url]]>>
         \o Posts_StopAtFailure(Tail(hs), outcome)

\* lines 329-344: one post per listener; what a post raises is logged
RECURSIVE Posts(_, _)
Posts(hs, outcome) ==
  IF hs = <<>> THEN <<>>
  ELSE <<[url |-> Head(hs).url, result |-> outcome[Head(hs).url]]>>
         \o Posts(Tail(hs), outcome)

\* trigger_webhooks_sync("product.imported", payload), lines 316-350
Delivered(how) ==
  LET hs == EnabledFor("product.imported")
  IN {[state |-> how, posts |-> Posts(hs, outcome)] :
        outcome \in [{hs[k].url : k \in DOMAIN hs} -> Outcomes]}

Webhook(j) ==
  /\ worker[j].pc = "webhook"
  /\ IF ShouldDispatch(session[j].job.status)
       THEN /\ dispatched' = [dispatched EXCEPT ![j] = Append(@, Payload(j, worker[j]))]
            /\ IF env.broker
                 THEN \* trigger_webhooks.delay queued the task
                      delivery' = [delivery EXCEPT ![j] = [NoDelivery EXCEPT !.state = "queued"]]
                 ELSE \* "except:" of line 270
                      \E d \in Delivered("inline") : delivery' = [delivery EXCEPT ![j] = d]
       ELSE UNCHANGED <<dispatched, delivery>>
  /\ worker' = [worker EXCEPT ![j].pc = "cleanup"]
  /\ UNCHANGED <<jobs, products, staged, fileOf, session, api, faults,
                 env, after, webhooks, sub, resp>>

\* the task trigger_webhooks (lines 312-314), run by the queue's consumer
trigger_webhooks(j) ==
  /\ delivery[j].state = "queued"
  /\ \E d \in Delivered("task") : delivery' = [delivery EXCEPT ![j] = d]
  /\ UNCHANGED <<jobs, products, staged, fileOf, worker, session, dispatched,
                 api, faults, env, after, webhooks, sub, resp>>

(***************************************************************************)
(* Lines 281-286: the staged file is removed; a failure is logged.         *)
(***************************************************************************)
Cleanup(j) ==
  /\ worker[j].pc = "cleanup"
  /\ \/ /\ staged' = [staged EXCEPT ![j] = FALSE]
        /\ worker' = [worker EXCEPT ![j].pc = "done"]
        /\ UNCHANGED faults
     \/ \* os.remove raises
        /\ staged[j]
        /\ faults < MaxFaults
        /\ faults' = faults + 1
        /\ worker' = [worker EXCEPT ![j].pc = "done", ![j].cleanup_err = TRUE]
        /\ UNCHANGED staged
  /\ UNCHANGED <<jobs, products, fileOf, session, dispatched, api, env, after,
                 beside>>

(***************************************************************************)
(* Lines 290-304: the handler of every exception that escapes.             *)
(***************************************************************************)
Fatal(j) ==
  /\ worker[j].pc = "fatal"
  /\ UNCHANGED <<staged, fileOf, dispatched, api, env, after, beside>>
  /\ LET w == [worker[j] EXCEPT !.pc = "done"]
         s == [session[j] EXCEPT !.job =
                 FailedJob(@, [kind |-> "fatal", detail |-> worker[j].exc], 301)]
     IN IF worker[j].job
          THEN Commit(j, s, w, RolledBack(j), w)
          ELSE /\ worker' = [worker EXCEPT ![j] = w]
               /\ UNCHANGED <<jobs, products, session, faults>>

(***************************************************************************)
(* create_product (main.py): the case-insensitive lookup, then the insert  *)
(* and its commit.  Another session may commit between the two.            *)
(***************************************************************************)
ApiSkus == {"DUP-001", " dup-001"}

\* a request to a product endpoint (the row of its product_id, the sku it
\* carries) and the status of its response; 0 while it is being handled
Sent(op, target, sku, status) ==
  [op |-> op, target |-> target, sku |-> sku, status |-> status]

ByFoldedSku_Exact(sku_lower) == {p \in products : p.sku = sku_lower}

\* db.query(Product).filter(func.lower(Product.sku) == sku_lower), main.py
ByFoldedSku(sku_lower) == {p \in products : Lower(p.sku) = sku_lower}

CreateProductCheck(sku) ==
  /\ api.pc = "idle"
  /\ env.calls > 0
  /\ env' = [env EXCEPT !.calls = @ - 1, !.made = @ + 1]
  /\ IF ByFoldedSku(Lower(Strip(sku))) # {}
       THEN /\ api' = [pc |-> "idle"]
            /\ resp' = [resp EXCEPT !.product = Sent("create", NoProduct, sku, 400)]
       ELSE /\ api' = [pc |-> "insert", sku |-> Strip(sku)]
            /\ resp' = [resp EXCEPT !.product = Sent("create", NoProduct, sku, 0)]
  /\ UNCHANGED <<jobs, products, staged, fileOf, worker, session, dispatched,
                 faults, after, webhooks, delivery, sub>>

CreateProductCommit ==
  /\ api.pc = "insert"
  /\ api' = [pc |-> "idle"]
  /\ IF \E p \in products : p.sku = api.sku
       THEN \* IntegrityError
            /\ resp' = [resp EXCEPT !.product.status = 500]
            /\ UNCHANGED products
       ELSE /\ resp' = [resp EXCEPT !.product.status = 200]
            /\ products' = products \cup {Product(api.sku, "Manual", "", TRUE)}
  /\ UNCHANGED <<jobs, staged, fileOf, worker, session, dispatched,
                 faults, env, after, webhooks, delivery, sub>>

(***************************************************************************)
(* update_product, delete_product and bulk_delete_products (main.py), each *)
(* from its first query to its response.  A product_id is stood for by the *)
(* row it names, or by NoProduct when it names none.                       *)
(***************************************************************************)
CrudSkus == ApiSkus \cup {"B-2"}


\* ProductUpdate bodies: a field is NoneVal when the request leaves it out;
\* active is written as in the JSON body
UpdateArgs ==
  [sku : {NoneVal} \cup CrudSkus, name : {NoneVal, "Renamed"},
   description : {NoneVal}, active : {NoneVal, "false"}]

\* a call of an endpoint begins: no other call is being handled
Called ==
  /\ api.pc = "idle"
  /\ env.calls > 0
  /\ env' = [env EXCEPT !.calls = @ - 1, !.made = @ + 1]
  /\ UNCHANGED <<jobs, staged, fileOf, worker, session, dispatched, api,
                 faults, after, webhooks, delivery, sub>>

\* lines 241-248: the new sku is another product's, ignoring case
SkuTaken(p, u) ==
  /\ u.sku # NoneVal
  /\ Lower(Strip(u.sku)) # Lower(p.sku)
  /\ ByFoldedSku(Lower(Strip(u.sku))) \ {p} # {}

\* lines 251-260
Changed(p, u) ==
  [p EXCEPT !.sku = IF u.sku # NoneVal THEN Strip(u.sku) ELSE @,
            !.name = IF u.name # NoneVal THEN Strip(u.name) ELSE @,
            !.description = IF u.description # NoneVal THEN Strip(u.description) ELSE @,
            !.active = IF u.active # NoneVal THEN u.active = "true" ELSE @,
            !.updated_at = UtcNow(260)]

update_product(p, u) ==
  /\ Called
  /\ IF p = NoProduct
       THEN /\ resp' = [resp EXCEPT !.product = Sent("update", p, u.sku, 404)]
            /\ UNCHANGED products
     ELSE IF SkuTaken(p, u)
       THEN /\ resp' = [resp EXCEPT !.product = Sent("update", p, u.sku, 400)]
            /\ UNCHANGED products
     ELSE IF \E q \in products \ {p} : q.sku = Changed(p, u).sku
       THEN \* IntegrityError at the commit of line 261
            /\ resp' = [resp EXCEPT !.product = Sent("update", p, u.sku, 500)]
            /\ UNCHANGED products
     ELSE /\ resp' = [resp EXCEPT !.product = Sent("update", p, u.sku, 200)]
          /\ products' = (products \ {p}) \cup {Changed(p, u)}

delete_product(p) ==
  /\ Called
  /\ IF p = NoProduct
       THEN /\ resp' = [resp EXCEPT !.product = Sent("delete", p, "", 404)]
            /\ UNCHANGED products
       ELSE /\ resp' = [resp EXCEPT !.product = Sent("delete", p, "", 200)]
            /\ products' = products \ {p}

bulk_delete_products ==
  /\ Called
  /\ resp' = [resp EXCEPT !.product = Sent("bulk_delete", NoProduct, "", 200)]
  /\ products' = {}

(***************************************************************************)
(* import_progress (main.py): the generator of the event stream.  One      *)
(* iteration of its loop is one step: the session is expired, the job is   *)
(* queried, a snapshot is sent, and the loop ends or sleeps.               *)
(***************************************************************************)
\* a well-formed identifier of no job
UnknownId == "J9"

\* identifiers a client may ask for, beside those of the jobs
SubIds == {"", "abc", UnknownId}

\* len(job_id): str(uuid.uuid4()) has 36 characters
IdLen(id) ==
  CASE id \in JobIds \cup {UnknownId} -> 36
    [] id = "abc" -> 3
    [] id = ""    -> 0

IsInvalidId_EmptyOnly(id) == id = ""

\* "not job_id or len(job_id) != 36"
IsInvalidId(id) == id = "" \/ IdLen(id) # 36

\* the session holds no ImportJob object, or holds it expired
NoCache == [loaded |-> FALSE]

expire_all_Keeps(cache) == cache

\* db.expire_all()
expire_all(cache) == NoCache

\* the engine of app/database.py shows every statement of a transaction
\* the rows committed when the statement runs, not those committed when the
\* transaction began
read_committed == TRUE

\* the job's row as a statement reads it now
RowNow(id) ==
  IF id \in DOMAIN jobs THEN [loaded |-> TRUE, job |-> jobs[id]] ELSE NoCache

\* the job's row as the request's transaction, begun by its first query and
\* never ended, reads it
RowRead(id) ==
  IF read_committed \/ ~sub.txn.loaded THEN RowNow(id) ELSE sub.txn

\* db.query(ImportJob).filter(ImportJob.id == job_id).first(): an object the
\* session holds unexpired keeps its attributes, otherwise they are loaded
\* from the row read
QueryJob(cache, id) == IF cache.loaded THEN cache ELSE RowRead(id)

\* Python's float is the IEEE-754 double.  For 0 <= p <= total, int(p /
\* total * 100) is the floor of the exact p * 100 / total unless that is one
\* of these integers: the double nearest 0.29, 0.57 or 0.58, times 100,
\* rounds to the double just below 29, 57 or 58, and int() truncates it.
RoundsBelow == {29, 57, 58}

\* int(x / y * 100) for integers 0 <= x <= y, y > 0
IntOfRatioTimes100(x, y) ==
  LET exact == (x * 100) \div y
  IN IF (x * 100) % y = 0 /\ exact \in RoundsBelow THEN exact - 1 ELSE exact

\* lines 122-123
Percent(job) ==
  LET total == IF job.total_rows > 0 THEN job.total_rows ELSE 1
  IN IF total > 0 THEN IntOfRatioTimes100(job.processed_rows, total) ELSE 0

\* lines 125-131
Snapshot(job) ==
  [status |-> job.status, processed |-> job.processed_rows,
   total |-> job.total_rows, percent |-> Percent(job),
   error |-> job.error_message]

SnapshotEnds_Never(status) == FALSE

\* line 135
SnapshotEnds(status) == status \in {"completed", "completed_with_errors", "failed"}

\* lines 106-112: the request arrives, its identifier is checked
Subscribe(id) ==
  /\ sub.pc = "idle"
  /\ id \in SubIds \cup DOMAIN jobs
  /\ sub' = IF IsInvalidId(id)
              THEN [sub EXCEPT !.pc = "ended", !.id = id, !.emitted = 1,
                               !.last = [status |-> "invalid_id"]]
              ELSE [sub EXCEPT !.pc = "poll", !.id = id]
  /\ UNCHANGED <<jobs, products, staged, fileOf, worker, session, dispatched,
                 api, faults, env, after, webhooks, delivery, resp>>

\* lines 114-138: one iteration of "for _ in range(600)"
Poll ==
  /\ sub.pc = "poll"
  /\ LET cache == QueryJob(expire_all(sub.cache), sub.id)
         polled == [sub EXCEPT !.n = @ + 1, !.reads = @ + 1, !.emitted = @ + 1,
                               !.cache = cache,
                               !.txn = IF read_committed THEN NoCache
                                       ELSE RowRead(sub.id)]
     IN sub' = IF ~cache.loaded
                 THEN [polled EXCEPT !.pc = "ended", !.last = [status |-> "not_found"]]
               ELSE [polled EXCEPT
                       !.last = Snapshot(cache.job),
                       !.pc = IF SnapshotEnds(cache.job.status) \/ sub.n + 1 = MaxPolls
                                THEN "ended" ELSE "poll"]
  /\ UNCHANGED <<jobs, products, staged, fileOf, worker, session, dispatched,
                 api, faults, env, after, webhooks, delivery, resp>>

Next ==
  \/ \E filename \in FileNames, f \in SmallFiles \cup BrokenFiles \cup BigFiles :
       import_products(filename, f)
  \/ \E j \in JobIds : Begin(j)
  \/ \E j \in JobIds : Open(j)
  \/ \E j \in JobIds : RowStep(j)
  \/ \E j \in JobIds : Commit50(j)
  \/ \E j \in JobIds : ChunkCommit(j)
  \/ \E j \in JobIds : Progress(j)
  \/ \E j \in JobIds : FinalCommit(j)
  \/ \E j \in JobIds : Classify(j)
  \/ \E j \in JobIds : Webhook(j)
  \/ \E j \in JobIds : Cleanup(j)
  \/ \E j \in JobIds : Fatal(j)
  \/ \E sku \in ApiSkus : CreateProductCheck(sku)
  \/ CreateProductCommit

Spec == Init /\ [][Next]_vars

(***************************************************************************)
(* One import beside a webhooks table with listeners, with and without a   *)
(* queue for trigger_webhooks.delay.                                       *)
(***************************************************************************)
InitHooks ==
  /\ Boot
  /\ env \in {Scenario("hooks", 1, 0, broker) : broker \in BOOLEAN}
  /\ webhooks \in {Listeners, SubSeq(Listeners, 2, 4)}

NextHooks ==
  \/ \E filename \in FileNames, f \in FilesOf("hooks") : import_products(filename, f)
  \/ \E j \in JobIds : Begin(j)
  \/ \E j \in JobIds : Open(j)
  \/ \E j \in JobIds : RowStep(j)
  \/ \E j \in JobIds : ChunkCommit(j)
  \/ \E j \in JobIds : Progress(j)
  \/ \E j \in JobIds : FinalCommit(j)
  \/ \E j \in JobIds : Classify(j)
  \/ \E j \in JobIds : Webhook(j)
  \/ \E j \in JobIds : trigger_webhooks(j)
  \/ \E j \in JobIds : Cleanup(j)
  \/ \E j \in JobIds : Fatal(j)

SpecHooks == InitHooks /\ [][NextHooks]_vars

(***************************************************************************)
(* Calls of the product endpoints, one after the other, on a catalog that  *)
(* starts empty.                                                           *)
(***************************************************************************)
InitCrud ==
  /\ Boot
  /\ env = Scenario("crud", 0, MaxCrudCalls, FALSE)
  /\ webhooks = <<>>

NextCrud ==
  \/ \E sku \in CrudSkus : CreateProductCheck(sku)
  \/ CreateProductCommit
  \/ \E p \in products \cup {NoProduct}, u \in UpdateArgs : update_product(p, u)
  \/ \E p \in products \cup {NoProduct} : delete_product(p)
  \/ bulk_delete_products

SpecCrud == InitCrud /\ [][NextCrud]_vars

(***************************************************************************)
(* Calls of create_product and update_product, one after the other, and    *)
(* then one import into the catalog they have made.                        *)
(***************************************************************************)
InitUpsert ==
  /\ Boot
  /\ env = Scenario("upsert", 1, MaxUpsertCalls, FALSE)
  /\ webhooks = <<>>

NextUpsert ==
  \/ \E sku \in CrudSkus : CreateProductCheck(sku)
  \/ CreateProductCommit
  \/ \E p \in products \cup {NoProduct}, u \in UpdateArgs : update_product(p, u)
  \/ /\ env.calls = 0
     /\ api.pc = "idle"
     /\ \E filename \in FileNames, f \in FilesOf("upsert") : import_products(filename, f)
  \/ \E j \in JobIds : Begin(j)
  \/ \E j \in JobIds : Open(j)
  \/ \E j \in JobIds : RowStep(j)
  \/ \E j \in JobIds : ChunkCommit(j)
  \/ \E j \in JobIds : Progress(j)
  \/ \E j \in JobIds : FinalCommit(j)
  \/ \E j \in JobIds : Classify(j)
  \/ \E j \in JobIds : Webhook(j)
  \/ \E j \in JobIds : Cleanup(j)
  \/ \E j \in JobIds : Fatal(j)

SpecUpsert == InitUpsert /\ [][NextUpsert]_vars

(***************************************************************************)
(* import_progress requests for a job whose import has stopped: the        *)
(* worker is a daemon thread (main.py line 96) and ends with the process,  *)
(* while the job's row stays as last committed.  After a restart the table *)
(* holds the row of a job pending, parsing or importing at the end of any  *)
(* of its chunks, and no worker runs.                                      *)
(***************************************************************************)
\* row counts of the files: none, one row, a chunk and a row, a long file
Totals == {0, 1, chunk_size + 1, MaxTotalRows}

\* processed_rows as line 206 leaves it after each chunk of a file of n rows
ChunkEnds(n) == {Min(chunk_size * k, n) : k \in 0..((n + chunk_size - 1) \div chunk_size)}

StoppedJobs ==
  {NewJob, ParsingJob(NewJob)}
    \cup {[NewJob EXCEPT !.status = "importing", !.total_rows = n,
                         !.processed_rows = p] : n \in Totals, p \in 0..MaxTotalRows}

InitPercent ==
  /\ \E job \in StoppedJobs :
       /\ job.processed_rows \in ChunkEnds(job.total_rows)
       /\ jobs = [j \in {"J1"} |-> job]
       /\ fileOf = [j \in JobIds |->
                      IF j = "J1" /\ job.status = "importing"
                        THEN File("none", AllCols, <<"First", "Second">>, job.total_rows)
                        ELSE File("none", <<>>, <<>>, 0)]
  /\ products = {}
  /\ staged = [j \in JobIds |-> j = "J1"]
  /\ worker = [j \in JobIds |-> IdleWorker]
  /\ session = [j \in JobIds |-> NewSession]
  /\ dispatched = [j \in JobIds |-> <<>>]
  /\ api = [pc |-> "idle"]
  /\ faults = 0
  /\ after = [j \in JobIds |-> {}]
  /\ delivery = [j \in JobIds |-> NoDelivery]
  /\ sub = IdleSub
  /\ resp = NoResp
  /\ env = Scenario("restart", 0, 0, FALSE)
  /\ webhooks = <<>>

NextPercent ==
  \/ \E id \in SubIds \cup JobIds : Subscribe(id)
  \/ Poll

SpecPercent == InitPercent /\ [][NextPercent]_vars

(***************************************************************************)
(* One import of a file of rows of every kind.                             *)
(***************************************************************************)
InitRows ==
  /\ Boot
  /\ env = Scenario("rows", 1, 0, FALSE)
  /\ webhooks = <<>>

NextRows ==
  \/ \E filename \in FileNames, f \in FilesOf("rows") : import_products(filename, f)
  \/ \E j \in JobIds : Begin(j)
  \/ \E j \in JobIds : Open(j)
  \/ \E j \in JobIds : RowStep(j)
  \/ \E j \in JobIds : ChunkCommit(j)
  \/ \E j \in JobIds : Progress(j)
  \/ \E j \in JobIds : FinalCommit(j)
  \/ \E j \in JobIds : Classify(j)
  \/ \E j \in JobIds : Webhook(j)
  \/ \E j \in JobIds : Cleanup(j)
  \/ \E j \in JobIds : Fatal(j)

SpecRows == InitRows /\ [][NextRows]_vars

(***************************************************************************)
(* Two uploads of one row, import_products taken step by step, each beside *)
(* the worker of the other.  The server runs a request to its end and the  *)
(* operating system schedules every started thread, so each step that      *)
(* stays possible is taken: FairUpload.                                    *)
(***************************************************************************)
InitUpload ==
  /\ Boot
  /\ env = Scenario("upload", 2, 0, FALSE)
  /\ webhooks = <<>>

NextUpload ==
  \/ \E filename \in FileNames, f \in FilesOf("upload") : CommitPending(filename, f)
  \/ StageUpload
  \/ StartWorker
  \/ \E j \in JobIds : Begin(j)
  \/ \E j \in JobIds : Open(j)
  \/ \E j \in JobIds : RowStep(j)
  \/ \E j \in JobIds : ChunkCommit(j)
  \/ \E j \in JobIds : Progress(j)
  \/ \E j \in JobIds : FinalCommit(j)
  \/ \E j \in JobIds : Classify(j)
  \/ \E j \in JobIds : Webhook(j)
  \/ \E j \in JobIds : Cleanup(j)
  \/ \E j \in JobIds : Fatal(j)

FairUpload ==
  /\ WF_vars(StageUpload)
  /\ WF_vars(StartWorker)
  /\ \A j \in JobIds :
       /\ WF_vars(Begin(j))
       /\ WF_vars(Open(j))
       /\ WF_vars(RowStep(j))
       /\ WF_vars(ChunkCommit(j))
       /\ WF_vars(Progress(j))
       /\ WF_vars(FinalCommit(j))
       /\ WF_vars(Classify(j))
       /\ WF_vars(Webhook(j))
       /\ WF_vars(Cleanup(j))
       /\ WF_vars(Fatal(j))

SpecUpload == InitUpload /\ [][NextUpload]_vars /\ FairUpload

(***************************************************************************)
(* One import of one row beside one import_progress request.               *)
(***************************************************************************)
InitProgress ==
  /\ Boot
  /\ env = Scenario("watch", 1, 0, FALSE)
  /\ webhooks = <<>>

NextProgress ==
  \/ \E filename \in FileNames, f \in FilesOf("watch") : import_products(filename, f)
  \/ \E j \in JobIds : Begin(j)
  \/ \E j \in JobIds : Open(j)
  \/ \E j \in JobIds : RowStep(j)
  \/ \E j \in JobIds : ChunkCommit(j)
  \/ \E j \in JobIds : Progress(j)
  \/ \E j \in JobIds : FinalCommit(j)
  \/ \E j \in JobIds : Classify(j)
  \/ \E j \in JobIds : Webhook(j)
  \/ \E j \in JobIds : Cleanup(j)
  \/ \E j \in JobIds : Fatal(j)
  \/ \E id \in SubIds \cup JobIds : Subscribe(id)
  \/ Poll

SpecProgress == InitProgress /\ [][NextProgress]_vars


(***************************************************************************)
(* Properties.                                                             *)
(***************************************************************************)
StatusEdges ==
  { <<"pending", "parsing">>, <<"parsing", "importing">>,
    <<"importing", "completed">>, <<"importing", "completed_with_errors">>,
    <<"pending", "failed">>, <<"parsing", "failed">>, <<"importing", "failed">> }

\* C1: every committed change of a job's status is an edge of
\* pending -> parsing -> importing -> {completed, completed_with_errors,
\* failed} or goes from a non-terminal status to failed; so status never
\* moves backward and a terminal status is never changed.
C1_StatusGraph ==
  [][\A j \in DOMAIN jobs :
       jobs'[j].status # jobs[j].status
         => <<jobs[j].status, jobs'[j].status>> \in StatusEdges]_vars

\* a job that was importing and was failed by the handler of line 290
C1_Witness ==
  \E j \in DOMAIN jobs :
    /\ jobs[j].status = "failed"
    /\ jobs[j].error_message.kind = "fatal"
    /\ worker[j].exc \in {"commit:207", "commit:258"}

\* C2: when process_csv_import_sync has returned for a job, a terminal
\* status is committed to the job's row, whatever failed on the way.
C2_TerminalWhenReturned ==
  \A j \in JobIds : worker[j].pc = "done" => jobs[j].status \in Terminal

C3_Inv ==
  \A j \in DOMAIN jobs :
    (jobs[j].completed_at # NoTime) <=> (jobs[j].status \in Terminal)

\* C3: in every committed state of a job row completed_at is set if and
\* only if status is terminal, and a committed completed_at is never
\* written again.
C3_CompletedAt ==
  /\ []C3_Inv
  /\ [][\A j \in DOMAIN jobs :
          jobs[j].completed_at # NoTime
            => jobs'[j].completed_at = jobs[j].completed_at]_vars

\* completed_at was assigned at line 257, that commit raised, and the
\* handler's assignment of line 301 is the one committed
C3_Witness ==
  \E j \in DOMAIN jobs :
    /\ jobs[j].completed_at = UtcNow(301)
    /\ worker[j].pc = "done"
    /\ worker[j].exc = "commit:258"

C4_Inv ==
  \A j \in DOMAIN jobs :
    0 <= jobs[j].processed_rows /\ jobs[j].processed_rows <= jobs[j].total_rows

\* C4: in every committed state of a job row 0 <= processed_rows <=
\* total_rows, and no commit decreases processed_rows.
C4_ProcessedRows ==
  /\ []C4_Inv
  /\ [][\A j \in DOMAIN jobs :
          jobs'[j].processed_rows >= jobs[j].processed_rows]_vars

\* the first chunk of a file of chunk_size + 1 rows is committed
C4_Witness ==
  \E j \in DOMAIN jobs :
    jobs[j].processed_rows = chunk_size /\ jobs[j].total_rows = chunk_size + 1

\* C5: every committed catalog state holds at most one product per
\* case-folded sku.
C5_OnePerFoldedSku ==
  \A p, q \in products : Lower(p.sku) = Lower(q.sku) => p.sku = q.sku

FoldedSku(row) == Lower(Strip(Str(row.sku)))

\* job j2 was uploaded after the worker of j1 had returned, each file is one
\* valid row, of the same sku up to case, and nothing failed
SameRowTwice(j1, j2) ==
  /\ j1 \in after[j2]
  /\ worker[j2].pc = "done"
  /\ NumRows(fileOf[j1]) = 1
  /\ NumRows(fileOf[j2]) = 1
  /\ FoldedSku(RowAt(fileOf[j1], 1)) = FoldedSku(RowAt(fileOf[j2], 1))
  /\ faults = 0

\* C6: the same valid row imported by two successive jobs leaves exactly one
\* record of its case-folded sku; the first job counts it created, the
\* second updated.
C6_ImportTwice ==
  \A j1, j2 \in JobIds :
    SameRowTwice(j1, j2)
      => /\ Cardinality({p \in products :
                           Lower(p.sku) = FoldedSku(RowAt(fileOf[j1], 1))}) = 1
         /\ worker[j1].created_count = 1 /\ worker[j1].updated_count = 0
         /\ worker[j2].created_count = 0 /\ worker[j2].updated_count = 1

\* the two jobs wrote the sku in different letter case
C6_Witness ==
  \E j1, j2 \in JobIds :
    /\ SameRowTwice(j1, j2)
    /\ fileOf[j1].pattern = <<"First">>
    /\ fileOf[j2].pattern = <<"Second">>

\* the job of the file "DUP-001 then dup-001" has returned; it was the only
\* writer of an empty catalog and nothing failed
DupFileDone(j) ==
  /\ worker[j].pc = "done"
  /\ fileOf[j] = File("none", AllCols, <<"First", "Second">>, 2)
  /\ \A k \in JobIds \ {j} : worker[k].pc = "idle"
  /\ env.made = 0
  /\ faults = 0

C8_Classification ==
  \A j \in JobIds :
    worker[j].pc \in {"webhook", "cleanup"}
      => LET w == worker[j]
             st == jobs[j].status
         IN /\ (st = "completed") <=> (Len(w.errors) = 0)
            /\ Len(w.errors) > 0 /\ w.processed_count = 0 => st = "failed"
            /\ Len(w.errors) > 0 /\ w.processed_count > 0
                 => st = "completed_with_errors"

RowLevel == {"sku", "name", "exception"}

\* the entries of errors that reject a row
Rejected(w) == Cardinality({k \in DOMAIN w.errors : w.errors[k] \in RowLevel})
Refused(w) == Cardinality({k \in DOMAIN w.errors : w.errors[k] \in {"sku", "name"}})

\* rows the loop has taken so far
Handled(w) == IF w.pc = "commit50" THEN w.idx + 1 ELSE w.idx

InvalidRow(f, row) ==
  \/ IsNullToken(Strip(Str(Get(f, row, "sku"))))
  \/ IsNullToken(Strip(Str(Get(f, row, "name"))))

\* the worker is past the row loop of a schema-valid file
LoopDone(j) ==
  \/ worker[j].pc \in {"final_commit", "classify", "webhook", "cleanup"}
  \/ /\ worker[j].pc = "done"
     /\ worker[j].exc = "none"
     /\ Opened(j).ok

\* C9: a rejected row, or one whose upsert raised, does not stop the import:
\* every row taken so far is either applied or rejected, the rows refused by
\* validation are exactly the invalid ones, and after the loop
\* applied + rejected = N.
C9_RowFailureContinues ==
  \A j \in JobIds :
    LET w == worker[j]
        f == fileOf[j]
    IN /\ w.pc \in {"row", "commit50", "chunk_commit", "progress"}
            => /\ w.processed_count + Rejected(w) = Handled(w)
               /\ Refused(w) =
                    Cardinality({k \in 1..Handled(w) : InvalidRow(f, RowAt(f, k))})
       /\ LoopDone(j)
            => /\ w.processed_count + Rejected(w) = NumRows(f)
               /\ Refused(w) =
                    Cardinality({k \in 1..NumRows(f) : InvalidRow(f, RowAt(f, k))})

\* a rejected first row, an applied second row
C9_Witness ==
  \E j \in JobIds :
    /\ LoopDone(j)
    /\ worker[j].pc = "done"
    /\ fileOf[j].pattern = <<"NoSku", "First">>
    /\ worker[j].errors = <<"sku">>
    /\ worker[j].processed_count = 1

\* the header of the job's file lacks sku or name
HeaderLacksRequired(j) ==
  /\ j \in DOMAIN jobs
  /\ fileOf[j].defect = "none"
  /\ ~(HasCol(fileOf[j], "sku") /\ HasCol(fileOf[j], "name"))

\* C10: a job whose header lacks sku or name never is importing: it goes to
\* failed with completed_at set, no row is processed, processed_rows and
\* total_rows stay 0, and it changes nothing in the catalog.
C10_SchemaRejected ==
  \A j \in JobIds :
    HeaderLacksRequired(j)
      => /\ jobs[j].status \in {"pending", "parsing", "failed"}
         /\ jobs[j].total_rows = 0 /\ jobs[j].processed_rows = 0
         /\ worker[j].pc \in {"begin", "open", "fatal", "done"}
         /\ worker[j].idx = 0 /\ worker[j].processed_count = 0
         /\ worker[j].errors = <<>>
         /\ session[j].pending = {}
         /\ env.made = 0 => products = {}
         /\ worker[j].pc = "done" /\ faults = 0
              => /\ jobs[j].status = "failed"
                 /\ jobs[j].completed_at = UtcNow(101)
                 /\ jobs[j].error_message.kind = "missing_columns"

C10_Witness ==
  \E j \in JobIds :
    /\ HeaderLacksRequired(j)
    /\ worker[j].pc = "done"
    /\ jobs[j].status = "failed"
    /\ jobs[j].error_message.kind = "missing_columns"
    /\ jobs[j].error_message.missing = <<"name">>

\* a schema-valid file of at least one row, each without a usable sku or name
AllRejected(f) ==
  /\ f.defect = "none"
  /\ HasCol(f, "sku") /\ HasCol(f, "name")
  /\ NumRows(f) >= 1
  /\ \A k \in DOMAIN f.pattern : f.pattern[k] \in {"NoSku", "NoName"}

\* the worker has committed the classification of lines 220-258
Classified(j) ==
  \/ worker[j].pc \in {"webhook", "cleanup"}
  \/ worker[j].pc = "done" /\ worker[j].exc = "none" /\ Opened(j).ok

\* C11: a job of a schema-valid file whose rows are all rejected never
\* creates or updates a catalog record and is never committed completed or
\* completed_with_errors; its classification is failed, and when nothing
\* else failed the job ends failed with an error count equal to the number
\* of rows.
C11_AllRowsRejected ==
  \A j \in DOMAIN jobs :
    AllRejected(fileOf[j])
      => LET w == worker[j]
         IN /\ w.processed_count = 0 /\ w.created_count = 0 /\ w.updated_count = 0
            /\ session[j].pending = {}
            /\ env.made = 0 => products = {}
            /\ jobs[j].status \notin {"completed", "completed_with_errors"}
            /\ Classified(j)
                 => /\ jobs[j].status = "failed"
                    /\ jobs[j].error_message.kind = "import_failed"
                    /\ faults = 0
                         => /\ w.error_count = NumRows(fileOf[j])
                            /\ jobs[j].error_message.total_errors = NumRows(fileOf[j])
            /\ w.pc = "done" /\ faults = 0 => jobs[j].status = "failed"

C11_Witness ==
  \E j \in DOMAIN jobs :
    /\ fileOf[j].pattern = <<"NoSku", "NoName">>
    /\ worker[j].pc = "done"
    /\ jobs[j].status = "failed"
    /\ jobs[j].error_message.kind = "import_failed"
    /\ jobs[j].error_message.total_errors = 2
    /\ jobs[j].error_message.lines = <<"sku", "name">>

\* the commit of lines 178, 196 or 207 that worker j was about to make raised
\* in this step
LoopCommitRaised(j) ==
  /\ worker[j].pc \in {"commit50", "chunk_commit", "progress"}
  /\ worker'[j] # worker[j]
  /\ faults' = faults + 1

\* C12: a commit that fails in the row loop (every 50 applied rows, at the
\* end of a chunk, or when processed_rows is persisted) adds exactly one
\* error entry and one to the error count, and the worker goes on with the
\* loop instead of leaving it through the handler that fails the job.
C12_CommitFailureCounted ==
  [][\A j \in JobIds :
       LoopCommitRaised(j)
         => /\ Len(worker'[j].errors) = Len(worker[j].errors) + 1
            /\ worker'[j].error_count = worker[j].error_count + 1
            /\ worker'[j].pc \in {"row", "chunk_commit", "progress", "final_commit"}]_vars

Succeeded == {"completed", "completed_with_errors"}

\* C13: the product.imported event of a job is handed to trigger_webhooks
\* exactly if the job's terminal status is completed or
\* completed_with_errors: once, with the job's counts, when that status and
\* completed_at are already committed, and never for a job that is failed
\* or not yet classified.
C13_DispatchOnSuccess ==
  \A j \in DOMAIN jobs :
    /\ dispatched[j] # <<>>
         => /\ jobs[j].status \in Succeeded
            /\ jobs[j].completed_at = UtcNow(257)
            /\ dispatched[j] = <<Payload(j, worker[j])>>
            /\ worker[j].pc \in {"cleanup", "done"}
    /\ jobs[j].status \in Succeeded /\ worker[j].pc \in {"cleanup", "done"}
         => Len(dispatched[j]) = 1
    /\ jobs[j].status \notin Succeeded => dispatched[j] = <<>>

\* a job completed with errors, its event dispatched with errors = 1
C13_Witness ==
  \E j \in DOMAIN jobs :
    /\ jobs[j].status = "completed_with_errors"
    /\ Len(dispatched[j]) = 1
    /\ dispatched[j][1] = [job_id |-> j, count |-> 1, created |-> 1,
                            updated |-> 0, errors |-> 1]

\* trigger_webhooks_sync has run for the event of job j
Fanned(j) == delivery[j].state \in {"inline", "task"}

\* C14: whatever each post does (it returns, raises or times out), a run of
\* trigger_webhooks_sync posts once to every enabled listener of
\* product.imported, in the order of the query, and to no other listener;
\* nothing is raised into process_csv_import_sync, which goes on to its
\* cleanup, and the job row keeps the status, error_message and
\* completed_at committed at line 258.
C14_DeliveryIsolated ==
  \A j \in JobIds :
    Fanned(j)
      => LET hs == EnabledFor("product.imported")
             posts == delivery[j].posts
         IN /\ Len(posts) = Len(hs)
            /\ \A k \in DOMAIN hs : posts[k].url = hs[k].url
            /\ worker[j].pc \in {"cleanup", "done"}
            /\ worker[j].exc = "none"
            /\ jobs[j].status = TerminalStatus(worker[j])
            /\ jobs[j].error_message = TerminalMessage(worker[j])
            /\ jobs[j].completed_at = UtcNow(257)

\* the post to the first listener timed out, the post to the second returned
C14_Witness ==
  \E j \in JobIds :
    /\ Fanned(j)
    /\ delivery[j].posts = << [url |-> "http://a", result |-> "timeout"],
                              [url |-> "http://d", result |-> "returned"] >>
    /\ jobs[j].status = "completed"

\* C15: when process_csv_import_sync has returned for a job, the job's
\* staged file is gone, unless its removal raised.
C15_StagedFileRemoved ==
  \A j \in JobIds :
    worker[j].pc = "done" => ~staged[j] \/ worker[j].cleanup_err

\* C16: a request whose identifier has not 36 characters is answered with
\* one snapshot, of status invalid_id, without any read of import_jobs; a
\* request whose 36-character identifier is of no job is answered with one
\* snapshot, of status not_found, after its first read; both then end.
C16_BadIdentifier ==
  /\ sub.pc # "idle" /\ IdLen(sub.id) # 36
       => /\ sub.pc = "ended"
          /\ sub.emitted = 1
          /\ sub.last = [status |-> "invalid_id"]
          /\ sub.reads = 0
  /\ sub.pc # "idle" /\ IdLen(sub.id) = 36 /\ sub.id \notin DOMAIN jobs
       => \/ sub.pc = "poll" /\ sub.emitted = 0 /\ sub.reads = 0
          \/ /\ sub.pc = "ended"
             /\ sub.emitted = 1
             /\ sub.last = [status |-> "not_found"]
             /\ sub.reads = 1

\* both requests were made in some run: this one is the unknown identifier,
\* asked for while a job exists
C16_Witness ==
  /\ sub.id = UnknownId
  /\ sub.pc = "ended"
  /\ sub.last = [status |-> "not_found"]
  /\ jobs # <<>>

\* a request of a malformed identifier has ended
C16_WitnessInvalid ==
  /\ sub.id = "abc"
  /\ sub.pc = "ended"
  /\ sub.last = [status |-> "invalid_id"]

\* the request is for a job of the table
Watching == sub.pc # "idle" /\ sub.id \in DOMAIN jobs

C17_Inv ==
  Watching
    => /\ sub.emitted = sub.n
       /\ sub.n <= MaxPolls
       /\ sub.n = MaxPolls => sub.pc = "ended"
       /\ sub.emitted > 0 /\ sub.last.status \in Terminal => sub.pc = "ended"
       /\ sub.pc = "ended"
            => sub.n = MaxPolls \/ sub.last.status \in Terminal

\* C17: a request for an existing job sends one snapshot per iteration and
\* at most 600; it ends with the first snapshot whose status is terminal and
\* with the 600th, and a request that has ended sends nothing more.
C17_SubscriptionEnds ==
  /\ []C17_Inv
  /\ [][sub.pc = "ended" => sub' = sub]_vars

\* the job stayed importing through all 600 iterations
C17_Witness ==
  /\ Watching
  /\ sub.pc = "ended"
  /\ sub.emitted = MaxPolls
  /\ sub.last.status = "importing"

\* the position of a status on pending -> parsing -> importing -> terminal
Rank(status) ==
  CASE status = "pending"   -> 0
    [] status = "parsing"   -> 1
    [] status = "importing" -> 2
    [] status \in Terminal  -> 3

\* this step sends a snapshot of a job
Sends == Watching /\ sub'.emitted = sub.emitted + 1

\* C18: every snapshot sent for a job is the snapshot of the job row as
\* committed when it is read, however the worker's commits interleave with
\* the reads; so from one snapshot of a request to the next processed does
\* not decrease and status does not move backward, and processed <= total
\* whenever total > 0.
C18_FreshSnapshots ==
  [][Sends
       => /\ sub'.last = Snapshot(jobs[sub.id])
          /\ sub'.last.total > 0 => sub'.last.processed <= sub'.last.total
          /\ sub.emitted > 0
               => /\ sub'.last.processed >= sub.last.processed
                  /\ Rank(sub'.last.status) >= Rank(sub.last.status)]_vars

\* the request saw the job pending, importing with nothing processed, and
\* completed with its row processed
C18_Witness ==
  /\ Watching
  /\ sub.emitted >= 3
  /\ sub.cache.loaded
  /\ sub.last = Snapshot(jobs[sub.id])
  /\ sub.last.status = "completed"
  /\ sub.last.processed = 1
  /\ sub.last.percent = 100

C19_Inv ==
  \A p, q \in products : p # q => Lower(p.sku) # Lower(q.sku)

\* this step begins the handling of a call of a product endpoint
Calls(op) == env'.made = env.made + 1 /\ resp'.product.op = op

\* sku is, ignoring case, the sku of a row of rows
Folds(sku, rows) == \E p \in rows : Lower(p.sku) = Lower(Strip(sku))

\* this step is a create_product with the sku of a product, ignoring case
CreatesTaken == Calls("create") /\ Folds(resp'.product.sku, products)

\* this step is an update_product to the sku of another product, ignoring
\* case
UpdatesToTaken ==
  /\ Calls("update")
  /\ resp'.product.target \in products
  /\ resp'.product.sku # NoneVal
  /\ Folds(resp'.product.sku, products \ {resp'.product.target})

\* the call is answered 400 and has changed nothing
Refuses ==
  /\ resp'.product.status = 400
  /\ api'.pc = "idle"
  /\ products' = products

\* C19: create_product with a sku that is an existing product's ignoring
\* case, and update_product with a sku that is another product's ignoring
\* case, answer 400 and leave the catalog as it is; and through calls of
\* create_product, update_product, delete_product and bulk_delete_products
\* that do not overlap the catalog holds at most one product per
\* case-folded sku.
C19_DuplicateSkuRejected ==
  /\ []C19_Inv
  /\ [][(CreatesTaken \/ UpdatesToTaken) => Refuses]_vars

\* update_product asked for the sku of the other product in another case,
\* and was refused
C19_Witness ==
  /\ resp.product.op = "update"
  /\ resp.product.status = 400
  /\ resp.product.sku = " dup-001"
  /\ {p.sku : p \in products} = {"DUP-001", "B-2"}

\* the names of FileNames that do not end in ".csv"
NotCsv == {"products.CSV", "notes.txt"}

\* this step handles a call of import_products
Imports == env'.uploads = env.uploads - 1

\* C20: import_products with a file name that does not end in ".csv"
\* answers 400 and creates no job, stages no file and starts no worker; a
\* call that is answered 400 has changed nothing else either.
C20_NotCsvRejected ==
  [][Imports
       => /\ resp'.import.filename \in NotCsv => resp'.import.status = 400
          /\ resp'.import.status = 400
               => UNCHANGED <<jobs, products, staged, fileOf, worker, session,
                              dispatched, delivery>>]_vars

\* the upload of products.CSV was refused
C20_Witness ==
  /\ resp.import.filename = "products.CSV"
  /\ resp.import.status = 400
  /\ jobs = <<>>
  /\ \A j \in JobIds : ~staged[j] /\ worker[j].pc = "idle"

NoErrorStatuses == {"pending", "parsing", "importing", "completed"}

\* C21: in every committed state of a job row error_message is NULL while
\* status is pending, parsing, importing or completed, and is a text (never
\* NULL) while status is failed or completed_with_errors.
C21_ErrorMessagePresence ==
  \A j \in DOMAIN jobs :
    /\ jobs[j].status \in NoErrorStatuses => jobs[j].error_message = NoMessage
    /\ jobs[j].status \in {"failed", "completed_with_errors"}
         => jobs[j].error_message # NoMessage

\* a job committed completed_with_errors with the summary of lines 237-248
C21_Witness ==
  \E j \in DOMAIN jobs :
    /\ jobs[j].status = "completed_with_errors"
    /\ jobs[j].error_message = Summary(worker[j], "completed_with_errors", PartialShown)
    /\ Len(jobs[j].error_message.lines) >= 1

\* messages of a job failed before line 110 was committed
EarlyFailures == {"file_not_found", "encoding", "parse", "missing_columns"}

FailedBeforeImporting(job) ==
  /\ job.status = "failed"
  /\ \/ job.error_message.kind \in EarlyFailures
     \/ /\ job.error_message.kind = "fatal"
        /\ job.error_message.detail \in {"query:48", "commit:55", "commit:63-110"}

C22_Inv ==
  \A j \in DOMAIN jobs :
    /\ jobs[j].status \in {"pending", "parsing"} => jobs[j].total_rows = 0
    /\ FailedBeforeImporting(jobs[j]) => jobs[j].total_rows = 0
    /\ jobs[j].status = "importing" => jobs[j].total_rows = NumRows(fileOf[j])

\* C22: a commit changes a job's total_rows only when it moves the job from
\* parsing to importing, so total_rows is written at most once and never
\* changed afterwards; a job that is pending or parsing, or that failed
\* before it was importing, has total_rows = 0.
C22_TotalRowsOnce ==
  /\ []C22_Inv
  /\ [][\A j \in DOMAIN jobs :
          jobs'[j].total_rows # jobs[j].total_rows
            => jobs[j].status = "parsing" /\ jobs'[j].status = "importing"]_vars

\* the commit of line 110 raised for a file of rows, and the handler of line
\* 290 failed the job
C22_Witness ==
  \E j \in DOMAIN jobs :
    /\ NumRows(fileOf[j]) >= 1
    /\ missing_cols(fileOf[j]) = <<>>
    /\ jobs[j].status = "failed"
    /\ jobs[j].error_message.kind = "fatal"
    /\ jobs[j].error_message.detail = "commit:63-110"
    /\ jobs[j].total_rows = 0

\* process_csv_import_sync is running for job j
Active(w) == w.pc \notin {"idle", "done"}

\* this step starts process_csv_import_sync for job j
Starts(j) == worker'[j].pc = "begin" /\ worker[j].pc # "begin"

\* this step is an upload that import_products accepts
Accepts == Imports /\ resp'.import.status = 200

\* C23: process_csv_import_sync is started for an identifier only by an
\* accepted upload, which starts it once, for an identifier that no job and
\* no worker had before; an upload starts no worker for another identifier,
\* and a worker once started is never started again.
C23_OneWorkerPerJob ==
  [][/\ \A j \in JobIds :
          Starts(j)
            => /\ Accepts
               /\ resp'.import.job_id = j
               /\ j \notin DOMAIN jobs
               /\ worker[j].pc = "idle"
               /\ DOMAIN jobs' = DOMAIN jobs \cup {j}
     /\ Accepts => Cardinality({j \in JobIds : Starts(j)}) = 1
     /\ \A j \in JobIds : worker[j].pc # "idle" => worker'[j].pc # "idle"]_vars

\* two uploads were accepted, and their two workers run side by side
C23_Witness ==
  /\ DOMAIN jobs = {"J1", "J2"}
  /\ Active(worker["J1"]) /\ worker["J1"].pc # "begin"
  /\ Active(worker["J2"]) /\ worker["J2"].pc # "begin"

\* this step is the commit of line 179 of worker j, and it succeeded
Committed50(j) ==
  /\ worker[j].pc = "commit50"
  /\ worker'[j].pc # "commit50"
  /\ worker'[j].errors = worker[j].errors

\* this step is the commit of line 207 of worker j, and it succeeded
CommittedChunk(j) ==
  /\ worker[j].pc = "progress"
  /\ worker'[j].pc \in {"row", "final_commit"}

\* C24: while a job is importing, the commit taken after every 50 applied
\* rows writes the job's processed_rows (at least the rows applied so far),
\* and the commit at the end of every chunk of 100 rows writes it again.
C24_CheckpointEvery50 ==
  [][\A j \in JobIds :
       /\ Committed50(j)
            => /\ jobs'[j].status = "importing"
               /\ jobs'[j].processed_rows >= worker[j].processed_count
       /\ CommittedChunk(j)
            => jobs'[j].processed_rows = ProcessedRows(worker[j])]_vars

\* the chunks whose end worker w has passed while it is in the row loop
ChunksEnded(w) == w.i \div chunk_size

\* the worker has left the row loop by its end
PastLoop(j) ==
  \/ worker[j].pc \in {"final_commit", "classify", "webhook", "cleanup"}
  \/ worker[j].pc = "done" /\ worker[j].exc = "none" /\ jobs[j].status \in Succeeded

\* C25: once the end of the k-th chunk is passed, the committed
\* processed_rows is min(100 * k, total_rows), whatever number of the
\* chunk's rows were rejected or raised; after the last chunk it is
\* total_rows.
C25_ChunkEnd ==
  \A j \in DOMAIN jobs :
    LET w == worker[j]
    IN /\ w.pc \in {"row", "commit50", "chunk_commit", "progress"}
            => jobs[j].processed_rows =
                 Min(chunk_size * ChunksEnded(w), jobs[j].total_rows)
       /\ PastLoop(j) /\ jobs[j].total_rows > 0
            => jobs[j].processed_rows =
                 Min(chunk_size * ((jobs[j].total_rows + chunk_size - 1) \div chunk_size),
                     jobs[j].total_rows)

\* the first chunk of a file of 101 rows has ended with an error recorded in
\* it, and the second chunk with its one row has ended too
C25_Witness ==
  \E j \in DOMAIN jobs :
    /\ jobs[j].total_rows = chunk_size + 1
    /\ PastLoop(j)
    /\ jobs[j].processed_rows = chunk_size + 1
    /\ worker[j].errors # <<>>
    /\ worker[j].processed_count = chunk_size

\* a trimmed cell that stands for no value: empty, or nan or none in any
\* letter case
NullText(s) == s = "" \/ Lower(s) = "nan" \/ Lower(s) = "none"

\* what is to become of a row: rejected for its sku, else for its name, else
\* applied
Verdict(f, row) ==
  IF NullText(Strip(Str(Get(f, row, "sku")))) THEN "sku"
  ELSE IF NullText(Strip(Str(Get(f, row, "name")))) THEN "name"
  ELSE "ok"

\* the description to store: empty for a missing or null cell
DescriptionOf(f, row) ==
  IF Get(f, row, "description") \in {NaN, NoneVal}
    THEN "" ELSE Strip(Get(f, row, "description"))

\* this step takes the next row of job j
RowTaken(j) == worker[j].pc = "row" /\ worker'[j] # worker[j]

\* this step rejects the row with one error of the kind, and writes nothing
RejectedAs(j, kind) ==
  /\ worker'[j].errors = Append(worker[j].errors, kind)
  /\ worker'[j].error_count = worker[j].error_count + 1
  /\ worker'[j].processed_count = worker[j].processed_count
  /\ worker'[j].created_count = worker[j].created_count
  /\ worker'[j].updated_count = worker[j].updated_count
  /\ session' = session
  /\ products' = products

\* this step puts the row's name and description on the record of its sku
AppliedRow(j, f, row) ==
  /\ worker'[j].errors = worker[j].errors
  /\ worker'[j].error_count = worker[j].error_count
  /\ worker'[j].processed_count = worker[j].processed_count + 1
  /\ \E q \in session'[j].pending :
       /\ Lower(q.sku) = Lower(Strip(Str(Get(f, row, "sku"))))
       /\ q.name = Strip(Str(Get(f, row, "name")))
       /\ q.description = DescriptionOf(f, row)

C26_Inv == \A p \in products : p.description \notin {"nan", "None", NaN, NoneVal}

\* C26: every row, whatever the rows before it, is rejected with one sku
\* error if its trimmed sku is empty, nan or none in any letter case,
\* otherwise with one name error if its trimmed name is; a rejected row
\* writes nothing to the catalog; a row that is not rejected is applied
\* (unless its lookup raises), and a missing or null description is stored
\* as the empty string.
C26_RowValidation ==
  /\ []C26_Inv
  /\ [][\A j \in JobIds :
          RowTaken(j)
            => LET f == fileOf[j]
                   row == RowAt(f, worker[j].idx + 1)
                   v == Verdict(f, row)
               IN IF v # "ok" THEN RejectedAs(j, v)
                  ELSE AppliedRow(j, f, row) \/ RejectedAs(j, "exception")]_vars

\* a row of sku NONE was rejected, a row without a description cell was
\* applied after it and is stored with the empty description
C26_Witness ==
  \E j \in DOMAIN jobs :
    /\ fileOf[j].pattern = <<"UpperNone", "Second">>
    /\ fileOf[j].columns = <<"sku", "name">>
    /\ worker[j].pc = "done"
    /\ worker[j].errors = <<"sku">>
    /\ jobs[j].status = "completed_with_errors"
    /\ products = {[sku |-> "dup-001", name |-> "Second", description |-> "",
                    active |-> TRUE, updated_at |-> NoTime]}

\* the stripped skus of the rows of file f
SkusOf(f) == {Strip(Str(Get(f, RowAt(f, k), "sku"))) : k \in 1..NumRows(f)}

\* this step is a commit of worker j that changes the catalog
ImportWrites(j) == Active(worker[j]) /\ session'[j] # session[j] /\ products' # products

\* the record of the same stored sku after the step: only name, description
\* and updated_at may differ
KeptBut(j, p) ==
  \E q \in products' :
    /\ q.sku = p.sku
    /\ q.active = p.active
    /\ q # p => /\ \E sku \in SkusOf(fileOf[j]) : Lower(sku) = Lower(p.sku)
                /\ q.updated_at = UtcNow(159)

\* the records the step adds: each is active, has the sku of a row as the
\* file writes it, matches no record of the catalog, and is the only one
\* added of its case-folded sku
AddedOK(j) ==
  LET added == {q \in products' : ~\E p \in products : p.sku = q.sku}
  IN \A q \in added :
       /\ q.active = TRUE
       /\ q.sku \in SkusOf(fileOf[j])
       /\ ~\E p \in products : Lower(p.sku) = Lower(q.sku)
       /\ \A r \in added : Lower(r.sku) = Lower(q.sku) => r = q

\* C27: a commit of an import leaves every record of the catalog in place
\* with its stored sku and its active flag, changes name, description and
\* updated_at of records matched by a row's case-folded sku only, and adds
\* one active record, with the row's sku as written, per case-folded sku
\* that matched none.
C27_UpsertFrame ==
  [][\A j \in JobIds :
       ImportWrites(j)
         => /\ \A p \in products : KeptBut(j, p)
            /\ AddedOK(j)]_vars

\* the row DUP-001 was imported into a catalog holding the inactive record
\* dup-001 and the record B-2
C27_Witness ==
  \E j \in DOMAIN jobs :
    /\ jobs[j].status = "completed"
    /\ fileOf[j].pattern = <<"First">>
    /\ \E p \in products :
         /\ p.sku = "dup-001" /\ ~p.active
         /\ p.name = "First" /\ p.description = "Description 1"
         /\ p.updated_at = UtcNow(159)
    /\ \E p \in products : p.sku = "B-2" /\ p.name = "Manual"
    /\ Cardinality(products) = 2

\* C28: in every snapshot sent for a job, percent is the floor of
\* processed * 100 / max(total, 1); it is 0 while total is 0, and it is
\* between 0 and 100.
C28_PercentIsFloor ==
  Watching /\ sub.emitted > 0
    => LET s == sub.last
       IN /\ s.percent = (s.processed * 100) \div Max(s.total, 1)
          /\ s.total = 0 => s.percent = 0
          /\ 0 <= s.percent /\ s.percent <= 100

\* C29: at every point of an import error_count is non-negative and is the
\* number of entries of errors, and a job with an entry in errors is never
\* committed completed.
C29_ErrorCountIsEntries ==
  \A j \in JobIds :
    /\ worker[j].error_count >= 0
    /\ worker[j].error_count = Len(worker[j].errors)
    /\ j \in DOMAIN jobs /\ jobs[j].status = "completed" => worker[j].errors = <<>>

\* job j is classified, and it is the only writer the catalog, empty at
\* first, has had
OnlyWriterAtEnd(j) ==
  /\ worker[j].pc \in {"webhook", "cleanup", "done"}
  /\ worker[j].exc = "none"
  /\ j \in DOMAIN jobs
  /\ jobs[j].status \in Terminal
  /\ jobs[j].error_message.kind \in {"NULL", "import_failed", "completed_with_errors"}
  /\ \A k \in JobIds \ {j} : worker[k].pc = "idle"
  /\ env.made = 0

\* C30: at the end of a job count = created + updated, and the counts are
\* those of the rows whose write is committed: for the only writer of a
\* catalog that was empty, created is the number of records the catalog
\* holds, and count is 0 exactly if the catalog holds none, also when a
\* commit of the run raised and was rolled back.
C30_CountsAreDurable ==
  \A j \in JobIds :
    OnlyWriterAtEnd(j)
      => LET w == worker[j]
         IN /\ w.processed_count = w.created_count + w.updated_count
            /\ w.created_count = Cardinality(products)
            /\ (w.processed_count = 0) <=> (products = {})

(***************************************************************************)
(* C31: whenever the committed status of a job is completed or             *)
(* completed_with_errors, its committed processed_rows equals its          *)
(* total_rows (an empty file leaves both at 0), and the progress snapshot  *)
(* of such a job with total_rows > 0 reports percent = 100.                *)
(***************************************************************************)
C31_SucceededIsWholeFile ==
  \A j \in DOMAIN jobs :
    jobs[j].status \in Succeeded =>
      /\ jobs[j].processed_rows = jobs[j].total_rows
      /\ jobs[j].total_rows > 0 => Snapshot(jobs[j]).percent = 100

\* a file of two chunks, the second of one row, was imported to the end
C31_Witness ==
  \E j \in DOMAIN jobs :
    /\ jobs[j].status \in Succeeded
    /\ NumRows(fileOf[j]) = chunk_size + 1
    /\ jobs[j].processed_rows = chunk_size + 1
    /\ Snapshot(jobs[j]).percent = 100

(***************************************************************************)
(* C32: in import_products the worker of a job is started only after the   *)
(* job row was committed as pending and the upload was written whole to    *)
(* its staging path, so a started worker finds its job row and its staged  *)
(* file; and every job row committed as pending gets a worker started for  *)
(* it, so no job stays pending for ever.                                   *)
(***************************************************************************)
\* job j is committed with status pending
IsPending(j) == j \in DOMAIN jobs /\ jobs[j].status = "pending"

\* a step that starts the worker of job j finds the row pending and the
\* whole upload at the staging path
StartsAfterCommitAndWrite ==
  \A j \in JobIds :
    Starts(j) => /\ IsPending(j)
                 /\ staged[j]
                 /\ fileOf[j] = api.file

\* a worker that has not yet loaded its job row finds it; one that has not
\* yet looked for its file finds it; no job failed for a missing file
WorkerFindsBoth ==
  \A j \in JobIds :
    /\ worker[j].pc = "begin" => IsPending(j)
    /\ worker[j].pc \in {"begin", "open"} => staged[j] /\ fileOf[j] = OneRow
    /\ j \in DOMAIN jobs => jobs[j].error_message # [kind |-> "file_not_found"]

\* every job row committed as pending gets its worker started
PendingGetsWorker ==
  \A j \in JobIds : IsPending(j) ~> (worker[j].pc # "idle")

\* no job stays pending for ever
PendingEnds ==
  \A j \in JobIds : IsPending(j) ~> (j \in DOMAIN jobs /\ jobs[j].status # "pending")

C32_StartedAfterStagedAndAlways ==
  /\ []WorkerFindsBoth
  /\ [][StartsAfterCommitAndWrite]_vars
  /\ PendingGetsWorker
  /\ PendingEnds

====
